---- MODULE Spec2Model ----
(***************************************************************************)
(* A model of code_tree_generator: graph.py (Node, Graph) and the tree     *)
(* walk and reference resolution of file_parser.py (ASTFileParser).        *)
(*                                                                         *)
(* Python strings are sequences of tokens (each token a TLA+ string), so   *)
(* that concatenation, rfind('.') and str(int) are computed, not assumed.  *)
(* Node objects live in a heap (a sequence); a reference is an index into  *)
(* it and 0 is None.  Two clients are modelled: "parser" runs              *)
(* ASTFileParser.parse() on a syntax tree and may then export the graph,   *)
(* run the resolution step again, or tear the graph down; "graph" calls    *)
(* the Graph API directly, as graph.py's __main__ does.                    *)
(***************************************************************************)
EXTENDS Integers, Sequences, FiniteSets, TLC

\* ------------------------------------------------------------------ bounds
\* Statements in the parsed source file.
MaxStmts == 3
\* Node objects the "graph" client constructs.
MaxNodes == 2
\* Graph API calls the "graph" client makes.
MaxCalls == 4

\* ----------------------------------------------------------------- strings
None == 0

Digit == <<"0", "1", "2", "3", "4", "5", "6", "7", "8", "9">>

\* str(n) for a non-negative int: its decimal digits.
RECURSIVE str(_)
str(n) == IF n < 10 THEN <<Digit[n + 1]>> ELSE str(n \div 10) \o <<Digit[(n % 10) + 1]>>

\* s.rfind('.'): the 1-based position of the last '.', 0 when there is none.
rfind_dot(s) ==
    LET P == {i \in 1..Len(s) : s[i] = "."}
    IN  IF P = {} THEN 0 ELSE CHOOSE i \in P : \A j \in P : j <= i

\* The path ASTFileParser was constructed with.
filepath == <<"a", ".", "py">>

\* dir(__builtins__) of the module run as __main__ (main(), graph.py's
\* counterpart), restricted to the names the modelled sources use.
BUILTINS == {<<"print">>}

\* ------------------------------------------------------- the syntax tree
\* A tree_sitter tree in document order: tree[i].parent < i, and the
\* children of a node are the nodes naming it as parent, in index order.
\* text is node.text (read only where the walker reads it).
SN(type, text, named, parent) ==
    [type |-> type, text |-> text, named |-> named, parent |-> parent]

\* node.children, once the tree is built.
children(t, i) == t[i].children

\* The indexes of the nodes of t that name i as their parent, ascending.
child_indexes(t, i) ==
    LET C == {j \in 1..Len(t) : t[j].parent = i}
        RECURSIVE Asc(_)
        Asc(S) ==
            IF S = {} THEN <<>>
            ELSE LET m == CHOOSE x \in S : \A y \in S : x <= y
                 IN  <<m>> \o Asc(S \ {m})
    IN  Asc(C)

\* The statements of the source file, each with the subtree the
\* tree-sitter-python grammar gives it (parent 0: the module; any other
\* parent is an index into the statement).
StmtForms ==
    { "import os", "import os.path", "from os import f", "import os as print",
      "f()", "os.path.join()", "print()",
      "def f(): pass", "async def f(): pass", "def print(): pass" }

\* call: seq(function, arguments), here with an identifier as the function.
CallStmt(name) ==
    << SN("expression_statement", <<>>, TRUE, 0),
       SN("call", <<>>, TRUE, 1),
       SN("identifier", name, TRUE, 2),
       SN("argument_list", <<>>, TRUE, 2),
       SN("(", <<"(">>, FALSE, 4),
       SN(")", <<")">>, FALSE, 4) >>

\* function_definition: seq(optional('async'), 'def', name, parameters, ':', body).
DefStmt(async, name) ==
    LET a == IF async THEN 1 ELSE 0
    IN  << SN("function_definition", <<>>, TRUE, 0) >>
        \o (IF async THEN << SN("async", <<"async">>, FALSE, 1) >> ELSE <<>>)
        \o << SN("def", <<"def">>, FALSE, 1),
              SN("identifier", name, TRUE, 1),
              SN("parameters", <<>>, TRUE, 1),
              SN("(", <<"(">>, FALSE, 4 + a),
              SN(")", <<")">>, FALSE, 4 + a),
              SN(":", <<":">>, FALSE, 1),
              SN("block", <<>>, TRUE, 1),
              SN("pass_statement", <<>>, TRUE, 8 + a),
              SN("pass", <<"pass">>, FALSE, 9 + a) >>

Stmt(form) ==
    CASE form = "import os" ->
           << SN("import_statement", <<>>, TRUE, 0),
              SN("import", <<"import">>, FALSE, 1),
              SN("dotted_name", <<"os">>, TRUE, 1),
              SN("identifier", <<"os">>, TRUE, 3) >>
      [] form = "import os.path" ->
           << SN("import_statement", <<>>, TRUE, 0),
              SN("import", <<"import">>, FALSE, 1),
              SN("dotted_name", <<"os", ".", "path">>, TRUE, 1),
              SN("identifier", <<"os">>, TRUE, 3),
              SN(".", <<".">>, FALSE, 3),
              SN("identifier", <<"path">>, TRUE, 3) >>
      [] form = "from os import f" ->
           << SN("import_from_statement", <<>>, TRUE, 0),
              SN("from", <<"from">>, FALSE, 1),
              SN("dotted_name", <<"os">>, TRUE, 1),
              SN("identifier", <<"os">>, TRUE, 3),
              SN("import", <<"import">>, FALSE, 1),
              SN("dotted_name", <<"f">>, TRUE, 1),
              SN("identifier", <<"f">>, TRUE, 6) >>
      [] form = "import os as print" ->
           << SN("import_statement", <<>>, TRUE, 0),
              SN("import", <<"import">>, FALSE, 1),
              SN("aliased_import", <<>>, TRUE, 1),
              SN("dotted_name", <<"os">>, TRUE, 3),
              SN("identifier", <<"os">>, TRUE, 4),
              SN("as", <<"as">>, FALSE, 3),
              SN("identifier", <<"print">>, TRUE, 3) >>
      [] form = "f()" -> CallStmt(<<"f">>)
      [] form = "print()" -> CallStmt(<<"print">>)
      [] form = "os.path.join()" ->
           << SN("expression_statement", <<>>, TRUE, 0),
              SN("call", <<>>, TRUE, 1),
              SN("attribute", <<"os", ".", "path", ".", "join">>, TRUE, 2),
              SN("attribute", <<"os", ".", "path">>, TRUE, 3),
              SN("identifier", <<"os">>, TRUE, 4),
              SN(".", <<".">>, FALSE, 4),
              SN("identifier", <<"path">>, TRUE, 4),
              SN(".", <<".">>, FALSE, 3),
              SN("identifier", <<"join">>, TRUE, 3),
              SN("argument_list", <<>>, TRUE, 2),
              SN("(", <<"(">>, FALSE, 10),
              SN(")", <<")">>, FALSE, 10) >>
      [] form = "def f(): pass" -> DefStmt(FALSE, <<"f">>)
      [] form = "async def f(): pass" -> DefStmt(TRUE, <<"f">>)
      [] form = "def print(): pass" -> DefStmt(FALSE, <<"print">>)

\* self._parser.parse(source): the module node followed by its statements.
RECURSIVE Attach(_, _)
Attach(t, forms) ==
    IF forms = <<>> THEN t
    ELSE LET s   == Stmt(Head(forms))
             off == Len(t)
             sh  == [k \in 1..Len(s) |->
                       [s[k] EXCEPT !.parent = IF @ = 0 THEN 1 ELSE @ + off]]
         IN  Attach(t \o sh, Tail(forms))

_get_syntax_tree(forms) ==
    LET t == Attach(<<SN("module", <<>>, TRUE, 0)>>, forms)
    IN  [i \in 1..Len(t) |->
           [type |-> t[i].type, text |-> t[i].text, named |-> t[i].named,
            parent |-> t[i].parent, children |-> child_indexes(t, i)]]

Programs == UNION {[1..n -> StmtForms] : n \in 0..MaxStmts}

\* --------------------------------------------------------------- graph.py
VARIABLES
    client,         \* "parser": ASTFileParser drives the graph; "graph": direct API use
    heap,           \* the Node objects constructed so far
    vert_dict,      \* Graph.vert_dict: id -> Node reference
    num_vertices,   \* Graph.num_vertices
    exc,            \* the exception the last call raised (its message), <<>> when none
    ncalls,         \* Graph API calls made by the "graph" client
    registered      \* history: the Nodes add_vertex accepted since the table was last empty

NoExc == <<>>

\* Node.__init__ (span and file are write-once provenance, never read back
\* by the graph or the walker, and are left out).
N(id, type, parent) ==
    [id |-> id, type |-> type, text |-> <<>>, var_name |-> <<>>,
     parent |-> parent, adjacent |-> <<>>]

\* d[k] = v on a dict.
DictSet(d, k, v) == [x \in DOMAIN d \cup {k} |-> IF x = k THEN v ELSE d[x]]

\* Mutant of add_neighbor: the weight is added to the one already there.
add_neighbor_accumulate(h, ref, neighbor, weight) ==
    [h EXCEPT ![ref].adjacent =
        DictSet(@, neighbor, IF neighbor \in DOMAIN @ THEN @[neighbor] + weight ELSE weight)]

\* Node.add_neighbor on the node at ref.
add_neighbor(h, ref, neighbor, weight) ==
    [h EXCEPT ![ref].adjacent = DictSet(@, neighbor, weight)]

\* Mutant of add_vertex: the parent check is left out.
add_vertex_unchecked(h, vd, nv, ref) ==
    [exc |-> NoExc, vert_dict |-> DictSet(vd, h[ref].id, ref), num_vertices |-> nv + 1]

\* Graph.add_vertex(node), node the object at ref.
add_vertex(h, vd, nv, ref) ==
    LET node == h[ref]
    IN  IF node.parent # None /\ h[node.parent].id \notin DOMAIN vd
        THEN [exc |-> <<"Parent ">> \o h[node.parent].id \o <<" not in graph.">>,
              vert_dict |-> vd, num_vertices |-> nv]
        ELSE [exc |-> NoExc,
              vert_dict |-> DictSet(vd, node.id, ref), num_vertices |-> nv + 1]

\* Mutant of add_edge: the reverse edge is installed whatever bi is.
add_edge_both_ways(h, vd, from_, to_, weight, bi) ==
    IF from_ \notin DOMAIN vd
    THEN [exc |-> <<"Vertex ">> \o from_ \o <<" not in graph.">>, heap |-> h]
    ELSE IF to_ \notin DOMAIN vd
    THEN [exc |-> <<"Vertex ">> \o to_ \o <<" not in graph.">>, heap |-> h]
    ELSE [exc |-> NoExc,
          heap |-> add_neighbor(add_neighbor(h, vd[from_], vd[to_], weight),
                                vd[to_], vd[from_], weight)]

\* Graph.add_edge(from_, to_, weight, bi).
add_edge(h, vd, from_, to_, weight, bi) ==
    IF from_ \notin DOMAIN vd
    THEN [exc |-> <<"Vertex ">> \o from_ \o <<" not in graph.">>, heap |-> h]
    ELSE IF to_ \notin DOMAIN vd
    THEN [exc |-> <<"Vertex ">> \o to_ \o <<" not in graph.">>, heap |-> h]
    ELSE LET h1 == add_neighbor(h, vd[from_], vd[to_], weight)
         IN  [exc |-> NoExc,
              heap |-> IF bi THEN add_neighbor(h1, vd[to_], vd[from_], weight) ELSE h1]

\* Graph.delete_graph(): only the nodes the table still holds are cleared.
delete_graph(h, vd) ==
    LET held == {vd[k] : k \in DOMAIN vd}
    IN  [r \in DOMAIN h |->
           IF r \in held THEN [h[r] EXCEPT !.parent = None, !.adjacent = <<>>]
           ELSE h[r]]

\* --------------------------------------------------------- file_parser.py
VARIABLES
    source,                 \* the statements of the file at self._filepath
    tree,                   \* self._tree: the parsed syntax tree (the input)
    counts,                 \* self._counts: display name -> occurrences - 1
    function_calls,         \* self._function_calls[filepath], in insertion order
    function_definitions,   \* self._function_definitions[filepath]
    imports,                \* self._imports[filepath]: name -> <<node id, import path>>
    edges_to_add,           \* self._edges_to_add
    stack,                  \* the _parse_node frames: syntax node, its Node, next child
    pc,                     \* where the client is
    ri,                     \* _resolve_imports: position in function_calls
    di,                     \* _resolve_imports: position in edges_to_add
    visited,                \* history: per Node of the walk, its syntax node and the
                            \* imports table as it was when the node was visited
    out                     \* what the last call produced, when it was an export

vars == <<client, heap, vert_dict, num_vertices, exc, ncalls, registered, tree, counts,
          function_calls, function_definitions, imports, edges_to_add, stack,
          pc, ri, di, visited, out, source>>

\* The export and query operations of ASTFileParser.
ExportOps == {"__str__", "save_dot_format", "convert_to_graphviz", "to_csv"}

\* No export has produced anything.
NoOut == [made |-> FALSE, nodes |-> {}, edges |-> {}]

\* bool(self._AST), the test behind "if not self._AST": class Graph
\* defines __iter__ and __str__ but neither __bool__ nor __len__, so the
\* truth value of a Graph is object's default, whatever the table holds.
Graph_bool(vd, nv) == TRUE

\* What an export reads off the graph: get_vertices(), and for each
\* vertex n and each x of n.get_connections() the pair (n.id, x.id).
\* _get_dot_format prints it, _convert_to_graphviz and _to_csv build the
\* AGraph from it, Graph.__str__ lists it node by node.
_convert_to_graphviz(h, vd) ==
    [made |-> TRUE, nodes |-> DOMAIN vd,
     edges |-> UNION {{<<n, h[x].id>> : x \in DOMAIN h[vd[n]].adjacent} : n \in DOMAIN vd}]

\* The outer dicts are keyed by the one file path and an inner dict is
\* created with its first entry, so "the outer dict is empty" is "the
\* inner dict does not exist": an empty value here.
\* function_calls keeps insertion order: a sequence of <<name, id>>.
Keys(d) == {d[k][1] : k \in 1..Len(d)}
\* Mutant of Put: the first entry of a key is kept.
Put_keep_first(d, key, val) ==
    IF key \in Keys(d) THEN d ELSE Append(d, <<key, val>>)
Put(d, key, val) ==
    IF key \in Keys(d)
    THEN [k \in 1..Len(d) |-> IF d[k][1] = key THEN <<key, val>> ELSE d[k]]
    ELSE Append(d, <<key, val>>)

\* The text _parse_node gives a node (None is <<>>, as falsy as '').
node_text(t, i) ==
    LET node == t[i]
        ch   == children(t, i)
        t1   == IF node.named /\ Len(ch) = 0 THEN node.text ELSE <<>>
        t2   == IF node.type = "binary_operator" THEN t[ch[2]].text ELSE t1
    IN  IF node.type = "attribute" THEN node.text ELSE t2

\* name before the counter suffix.
display_name(t, i) ==
    LET text == node_text(t, i)
    IN  IF text = <<>> THEN <<t[i].type>> ELSE <<t[i].type, " | ">> \o text

\* Mutant of next_count: the counter is never advanced.
next_count_stuck(cnt, name) == 0

\* The counter of a display name after this occurrence.
next_count(cnt, name) == IF name \notin DOMAIN cnt THEN 0 ELSE cnt[name] + 1

\* The node id: 'module | <file path>' or display name + '_' + counter.
node_id(t, i, cnt) ==
    IF t[i].type = "module" THEN <<"module", " | ">> \o filepath
    ELSE LET name == display_name(t, i)
         IN  name \o <<"_">> \o str(next_count(cnt, name))

\* node.type.startswith("import"), over the grammar's node types.
startswith_import(type) ==
    type \in {"import_statement", "import_from_statement", "import_prefix"}

\* Mutant of _call_to_import: a dotted name that is not bound is cut to
\* its first segment at once (function_call.split('.')[0]).
_call_to_import_first_segment(imp, queue, function_call, id) ==
    LET dots  == {k \in 1..Len(function_call) : function_call[k] = "."}
        first == IF dots = {} THEN function_call
                 ELSE SubSeq(function_call, 1,
                             (CHOOSE k \in dots : \A j \in dots : k <= j) - 1)
    IN  IF function_call \in DOMAIN imp
        THEN Append(queue, <<id, imp[function_call][1]>>)
        ELSE IF first \in DOMAIN imp
        THEN Append(queue, <<id, imp[first][1]>>)
        ELSE queue

\* ASTFileParser._call_to_import: the queue after looking function_call up.
RECURSIVE _call_to_import(_, _, _, _)
_call_to_import(imp, queue, function_call, id) ==
    IF function_call \in DOMAIN imp
    THEN Append(queue, <<id, imp[function_call][1]>>)
    ELSE IF rfind_dot(function_call) # 0
    THEN _call_to_import(imp, queue,
                         SubSeq(function_call, 1, rfind_dot(function_call) - 1), id)
    ELSE queue

\* ASTFileParser._handle_import: the imports table after the node.  (An
\* aliased_import or dotted_name under a parent that is neither kind of
\* import statement leaves import_path unbound in the code; the grammar
\* forms modelled here hold none.)
_handle_import(t, i, imp, id) ==
    LET node == t[i]
        par  == t[node.parent]
        ch   == children(t, i)
        pch  == children(t, node.parent)
    IN  IF node.type = "aliased_import"
        THEN LET import_path ==
                     IF par.type = "import_from_statement"
                     THEN t[pch[2]].text \o <<".">> \o t[ch[1]].text
                     ELSE t[ch[1]].text
             IN  DictSet(imp, t[ch[3]].text, <<id, import_path>>)
        ELSE IF par.type = "import_from_statement" /\ pch[2] = i
        THEN imp
        ELSE LET import_path ==
                     IF par.type = "import_from_statement" THEN t[pch[2]].text
                     ELSE <<>>
             IN  DictSet(imp, node.text, <<id, import_path>>)

\* ASTFileParser._handle_definition: the definitions table after the node.
_handle_definition(t, i, defs, id) ==
    DictSet(defs, t[children(t, i)[2]].text, id)

\* Mutant of definition_of: a name that is not defined but is bound by an
\* import resolves to the import node (a second pass over the imports).
definition_of_or_import(defs, function_name) ==
    IF defs # <<>> /\ function_name \in DOMAIN defs THEN defs[function_name]
    ELSE IF function_name \in DOMAIN imports THEN imports[function_name][1]
    ELSE <<>>

\* _resolve_imports' lookup of a called name: the id of its definition,
\* <<>> when the name is not defined.
definition_of(defs, function_name) ==
    IF defs # <<>> /\ function_name \in DOMAIN defs THEN defs[function_name] ELSE <<>>

\* Mutant of is_tracked_call: built-in names are not excluded.
is_tracked_call_any(t, i) == t[i].type = "call"

\* Whether _parse_node hands the node to _handle_call.
is_tracked_call(t, i) ==
    t[i].type = "call" /\ t[children(t, i)[1]].text \notin BUILTINS

is_import(t, i) ==
    \/ t[i].type = "aliased_import"
    \/ t[i].type = "dotted_name" /\ startswith_import(t[t[i].parent].type)

is_definition(t, i) ==
    t[i].type \in {"function_definition", "class_definition"}

\* The first position >= k among the children of i that holds a named
\* node, 0 when there is none: the "for child ... continue" of _parse_node.
next_named(t, i, k) ==
    LET ch == children(t, i)
        P  == {p \in k..Len(ch) : t[ch[p]].named}
    IN  IF P = {} THEN 0 ELSE CHOOSE p \in P : \A q \in P : p <= q

\* The tables of a parser that has visited nothing.
_init_tracking ==
    [counts |-> <<>>, function_calls |-> <<>>, function_definitions |-> <<>>,
     imports |-> <<>>, edges_to_add |-> <<>>]

\* The tables after _parse_node has visited the nodes i, i + 1, ... of t,
\* started with the tables st: the walk is in document order, each named
\* node is named and handed to the handlers as in _parse_node.
RECURSIVE _parse_nodes(_, _, _)
_parse_nodes(t, i, st) ==
    IF i > Len(t) THEN st
    ELSE IF ~t[i].named THEN _parse_nodes(t, i + 1, st)
    ELSE LET id == node_id(t, i, st.counts)
             fn == t[children(t, i)[1]].text
         IN  _parse_nodes(t, i + 1,
                [counts |-> DictSet(st.counts, display_name(t, i),
                                    next_count(st.counts, display_name(t, i))),
                 function_calls |->
                     IF is_tracked_call(t, i) THEN Put(st.function_calls, fn, id)
                     ELSE st.function_calls,
                 edges_to_add |->
                     IF is_tracked_call(t, i)
                     THEN _call_to_import(st.imports, st.edges_to_add, fn, id)
                     ELSE st.edges_to_add,
                 imports |->
                     IF is_import(t, i) THEN _handle_import(t, i, st.imports, id)
                     ELSE st.imports,
                 function_definitions |->
                     IF is_definition(t, i)
                     THEN _handle_definition(t, i, st.function_definitions, id)
                     ELSE st.function_definitions])

\* The tables parse() leaves for a file of the statements forms: the
\* module node touches no table, and a handler reads nothing outside the
\* statement of its node, so the statements are walked one after another.
RECURSIVE parse_tables(_, _)
parse_tables(forms, st) ==
    IF forms = <<>> THEN st
    ELSE parse_tables(Tail(forms),
                      _parse_nodes(_get_syntax_tree(<<Head(forms)>>), 2, st))

\* The semantic edges _resolve_imports installs from the tables st, as
\* pairs of ids: call <-> definition for each call whose name is defined,
\* then every queued call -> import edge.
_resolve_imports(st) ==
    LET calls == st.function_calls
        defs  == st.function_definitions
    IN  UNION {IF definition_of(defs, calls[k][1]) # <<>>
               THEN {<<calls[k][2], defs[calls[k][1]]>>, <<defs[calls[k][1]], calls[k][2]>>}
               ELSE {} : k \in 1..Len(calls)}
        \cup {st.edges_to_add[k] : k \in 1..Len(st.edges_to_add)}

\* ----------------------------------------------------------------- Init
Init ==
    /\ client \in {"parser", "graph"}
    /\ source \in IF client = "parser" THEN Programs ELSE {<<>>}
    /\ tree = IF client = "parser" THEN _get_syntax_tree(source) ELSE <<>>
    /\ pc = IF client = "parser" THEN "start" ELSE "api"
    /\ heap = <<>>
    /\ vert_dict = <<>>
    /\ num_vertices = 0
    /\ exc = NoExc
    /\ ncalls = 0
    /\ registered = {}
    /\ counts = <<>>
    /\ function_calls = <<>>
    /\ function_definitions = <<>>
    /\ imports = <<>>
    /\ edges_to_add = <<>>
    /\ stack = <<>>
    /\ ri = 1
    /\ di = 1
    /\ visited = <<>>
    /\ out = NoOut

\* ----------------------------------------------- ASTFileParser.parse()
\* One call of _parse_node up to its loop over the children: name the
\* node, construct and insert its Node, run the handlers, and open its
\* frame on top of stk.
Visit(i, last_node, stk) ==
    LET node == tree[i]
        id   == node_id(tree, i, counts)
        text == node_text(tree, i)
        n0   == N(id, node.type, last_node)
        n_   == IF text # <<>> THEN [n0 EXCEPT !.text = text] ELSE n0
        ref  == Len(heap) + 1
        h1   == Append(heap, n_)
        av   == add_vertex(h1, vert_dict, num_vertices, ref)
        fn   == tree[children(tree, i)[1]].text
    IN  /\ counts' = IF node.type = "module" THEN counts
                     ELSE DictSet(counts, display_name(tree, i),
                                  next_count(counts, display_name(tree, i)))
        /\ vert_dict' = av.vert_dict
        /\ num_vertices' = av.num_vertices
        /\ exc' = av.exc
        /\ visited' = Append(visited, [node |-> i, imports |-> imports])
        /\ registered' = IF av.exc = NoExc THEN registered \cup {ref} ELSE registered
        /\ IF av.exc # NoExc
           THEN /\ heap' = h1
                /\ pc' = "raised"
                /\ stack' = <<>>
                /\ UNCHANGED <<function_calls, function_definitions, imports,
                               edges_to_add>>
           ELSE /\ heap' = IF node.type = "identifier"
                           THEN [h1 EXCEPT ![ref].var_name = node.text]
                           ELSE h1
                /\ pc' = "walk"
                /\ stack' = Append(stk, [node |-> i, ref |-> ref, k |-> 1])
                /\ function_calls' = IF is_tracked_call(tree, i)
                                     THEN Put(function_calls, fn, id)
                                     ELSE function_calls
                /\ edges_to_add' = IF is_tracked_call(tree, i)
                                   THEN _call_to_import(imports, edges_to_add, fn, id)
                                   ELSE edges_to_add
                /\ imports' = IF is_import(tree, i)
                              THEN _handle_import(tree, i, imports, id)
                              ELSE imports
                /\ function_definitions' =
                       IF is_definition(tree, i)
                       THEN _handle_definition(tree, i, function_definitions, id)
                       ELSE function_definitions
        /\ out' = NoOut
        /\ UNCHANGED <<client, source, tree, ncalls, ri, di>>

\* parse() is called: _parse_node(self._root, ..., last_node = None).
ParseRoot ==
    /\ client = "parser" /\ pc = "start"
    /\ Visit(1, None, <<>>)

\* The loop of the innermost frame reaches a named child: recurse.
ParseChild ==
    /\ client = "parser" /\ pc = "walk" /\ stack # <<>>
    /\ LET top == stack[Len(stack)]
           p   == next_named(tree, top.node, top.k)
       IN  /\ p # 0
           /\ Visit(children(tree, top.node)[p], top.ref,
                    [stack EXCEPT ![Len(stack)].k = p + 1])

\* The loop of the innermost frame is over: return the id; the caller
\* adds the tree edge, or, for the root, parse() goes on to resolve.
ParseReturn ==
    /\ client = "parser" /\ pc = "walk" /\ stack # <<>>
    /\ LET top == stack[Len(stack)]
       IN  /\ next_named(tree, top.node, top.k) = 0
           /\ IF Len(stack) = 1
              THEN /\ pc' = "resolve"
                   /\ stack' = <<>>
                   /\ UNCHANGED <<heap, exc>>
              ELSE LET caller == stack[Len(stack) - 1]
                       ae == add_edge(heap, vert_dict, heap[caller.ref].id,
                                      heap[top.ref].id, 1, FALSE)
                   IN  /\ heap' = ae.heap
                       /\ exc' = ae.exc
                       /\ pc' = IF ae.exc # NoExc THEN "raised" ELSE "walk"
                       /\ stack' = IF ae.exc # NoExc THEN <<>>
                                   ELSE SubSeq(stack, 1, Len(stack) - 1)
    /\ UNCHANGED <<client, tree, vert_dict, num_vertices, ncalls, registered,
                   counts, function_calls, function_definitions, imports,
                   edges_to_add, ri, di, visited, out, source>>

\* _resolve_imports with no call recorded: returns at once.
ResolveNothing ==
    /\ client = "parser" /\ pc \in {"resolve", "again"}
    /\ function_calls = <<>>
    /\ pc' = "done"
    /\ UNCHANGED <<client, heap, vert_dict, num_vertices, exc, ncalls,
                   registered, tree, counts, function_calls, function_definitions,
                   imports, edges_to_add, stack, ri, di, visited, out, source>>

\* One round of the loop over the recorded calls: a call whose name is
\* defined gets the call -> definition and definition -> call edges.
ResolveCall ==
    /\ client = "parser" /\ pc \in {"resolve", "again"}
    /\ ri <= Len(function_calls)
    /\ LET function_name == function_calls[ri][1]
           call == function_calls[ri][2]
           def  == definition_of(function_definitions, function_name)
       IN  IF def # <<>>
           THEN LET e1  == add_edge(heap, vert_dict, call, def, 1, FALSE)
                    e2  == add_edge(e1.heap, vert_dict, def, call, 1, FALSE)
                IN  /\ heap' = e2.heap
                    /\ exc' = IF e1.exc # NoExc THEN e1.exc ELSE e2.exc
                    /\ pc' = IF e1.exc # NoExc \/ e2.exc # NoExc
                             THEN "raised" ELSE pc
           ELSE UNCHANGED <<heap, exc, pc>>
    /\ ri' = ri + 1
    /\ UNCHANGED <<client, vert_dict, num_vertices, ncalls, registered, tree, counts,
                   function_calls, function_definitions, imports, edges_to_add,
                   stack, di, visited, out, source>>

\* Mutant of DrainEdge: the queue is drained from its end.
DrainEdge_from_the_end ==
    /\ client = "parser" /\ pc \in {"resolve", "again"}
    /\ function_calls # <<>> /\ ri > Len(function_calls)
    /\ di <= Len(edges_to_add)
    /\ LET e  == edges_to_add[Len(edges_to_add) + 1 - di]
           ae == add_edge(heap, vert_dict, e[1], e[2], 1, FALSE)
       IN  /\ heap' = ae.heap
           /\ exc' = ae.exc
           /\ pc' = IF ae.exc # NoExc THEN "raised" ELSE pc
    /\ di' = di + 1
    /\ UNCHANGED <<client, vert_dict, num_vertices, ncalls, registered, tree, counts,
                   function_calls, function_definitions, imports, edges_to_add,
                   stack, ri, visited, out, source>>

\* One round of the loop over the queued call -> import edges.
DrainEdge ==
    /\ client = "parser" /\ pc \in {"resolve", "again"}
    /\ function_calls # <<>> /\ ri > Len(function_calls)
    /\ di <= Len(edges_to_add)
    /\ LET ae == add_edge(heap, vert_dict, edges_to_add[di][1],
                          edges_to_add[di][2], 1, FALSE)
       IN  /\ heap' = ae.heap
           /\ exc' = ae.exc
           /\ pc' = IF ae.exc # NoExc THEN "raised" ELSE pc
    /\ di' = di + 1
    /\ UNCHANGED <<client, vert_dict, num_vertices, ncalls, registered, tree, counts,
                   function_calls, function_definitions, imports, edges_to_add,
                   stack, ri, visited, out, source>>

\* Both loops are over: _resolve_imports returns, and parse() with it.
ParseDone ==
    /\ client = "parser" /\ pc \in {"resolve", "again"}
    /\ function_calls # <<>> /\ ri > Len(function_calls)
    /\ di > Len(edges_to_add)
    /\ pc' = "done"
    /\ UNCHANGED <<client, heap, vert_dict, num_vertices, exc, ncalls,
                   registered, tree, counts, function_calls, function_definitions,
                   imports, edges_to_add, stack, ri, di, visited, out, source>>

\* The resolution step is run again on the parsed file:
\* parser._resolve_imports(parser.AST), the tables and the queue as
\* parse() left them (pc "again": a run that is not the one inside parse()).
ResolveAgain ==
    /\ client = "parser" /\ pc = "done"
    /\ pc' = "again"
    /\ ri' = 1
    /\ di' = 1
    /\ out' = NoOut
    /\ UNCHANGED <<client, heap, vert_dict, num_vertices, exc, ncalls, registered,
                   source, tree, counts, function_calls, function_definitions,
                   imports, edges_to_add, stack, visited>>

\* The caller tears the parsed graph down: parser.AST.delete_graph().
Teardown ==
    /\ client = "parser" /\ pc = "done"
    /\ heap' = delete_graph(heap, vert_dict)
    /\ vert_dict' = <<>>
    /\ num_vertices' = 0
    /\ registered' = {}
    /\ pc' = "torn"
    /\ out' = NoOut
    /\ UNCHANGED <<client, exc, ncalls, tree, counts, function_calls,
                   function_definitions, imports, edges_to_add, stack, ri, di,
                   visited, source>>

\* str(parser), save_dot_format(), convert_to_graphviz() or to_csv(),
\* called before parse() or after it.  The four differ in the format of
\* what they produce, not in what they read or in their guard.
Export(op) ==
    /\ op \in ExportOps
    /\ client = "parser" /\ pc \in {"start", "done"}
    /\ IF ~Graph_bool(vert_dict, num_vertices)
       THEN /\ exc' = <<"AST is empty. Use parse() first.">>
            /\ out' = NoOut
       ELSE /\ exc' = NoExc
            /\ out' = _convert_to_graphviz(heap, vert_dict)
    /\ UNCHANGED <<client, heap, vert_dict, num_vertices, ncalls, registered, tree,
                   counts, function_calls, function_definitions, imports,
                   edges_to_add, stack, pc, ri, di, visited, source>>

\* ------------------------------------------------ the Graph API, directly
Ids == {<<"a">>, <<"b">>}
Weights == {1, 2}

parser_vars == <<tree, counts, function_calls, function_definitions, imports,
                 edges_to_add, stack, pc, ri, di, visited, out, source>>

\* Node(id, ..., parent = parent): parent is None or a Node made before.
NewNode(id, parent) ==
    /\ client = "graph"
    /\ Len(heap) < MaxNodes
    /\ heap' = Append(heap, N(id, "", parent))
    /\ UNCHANGED <<client, vert_dict, num_vertices, exc, ncalls, registered>>
    /\ UNCHANGED parser_vars

\* g.add_vertex(node).
AddVertex(ref) ==
    /\ client = "graph"
    /\ ncalls < MaxCalls
    /\ LET av == add_vertex(heap, vert_dict, num_vertices, ref)
       IN  /\ vert_dict' = av.vert_dict
           /\ num_vertices' = av.num_vertices
           /\ exc' = av.exc
           /\ registered' = IF av.exc = NoExc THEN registered \cup {ref} ELSE registered
    /\ ncalls' = ncalls + 1
    /\ UNCHANGED <<client, heap>>
    /\ UNCHANGED parser_vars

\* g.add_edge(from_, to_, weight, bi).
AddEdge(from_, to_, weight, bi) ==
    /\ client = "graph"
    /\ ncalls < MaxCalls
    /\ LET ae == add_edge(heap, vert_dict, from_, to_, weight, bi)
       IN  /\ heap' = ae.heap
           /\ exc' = ae.exc
    /\ ncalls' = ncalls + 1
    /\ UNCHANGED <<client, vert_dict, num_vertices, registered>>
    /\ UNCHANGED parser_vars

\* g.delete_graph().
DeleteGraph ==
    /\ client = "graph"
    /\ ncalls < MaxCalls
    /\ heap' = delete_graph(heap, vert_dict)
    /\ vert_dict' = <<>>
    /\ num_vertices' = 0
    /\ registered' = {}
    /\ exc' = NoExc
    /\ ncalls' = ncalls + 1
    /\ UNCHANGED client
    /\ UNCHANGED parser_vars

Next ==
    \/ ParseRoot
    \/ ParseChild
    \/ ParseReturn
    \/ ResolveNothing
    \/ ResolveCall
    \/ DrainEdge
    \/ ParseDone
    \/ ResolveAgain
    \/ Teardown
    \/ \E op \in ExportOps : Export(op)
    \/ \E id \in Ids, parent \in {None} \cup DOMAIN heap : NewNode(id, parent)
    \/ \E ref \in DOMAIN heap : AddVertex(ref)
    \/ \E from_ \in Ids, to_ \in Ids, weight \in Weights, bi \in BOOLEAN :
          AddEdge(from_, to_, weight, bi)
    \/ DeleteGraph

Spec == Init /\ [][Next]_vars

\* =================================================================== claims
\* Vocabulary of the properties below (read off the state, not the code).
Parsing == client = "parser"
SynOf(r) == visited[r].node
Walked == DOMAIN visited
Edge(r1, r2) == r2 \in DOMAIN heap[r1].adjacent
\* The Nodes made for the named children of r's syntax node.
TreeChildren(r) == {c \in Walked : tree[SynOf(c)].parent = SynOf(r)}
NamedSyntaxNodes == {i \in 1..Len(tree) : tree[i].named}
\* The display name of a Node: its type, then ' | ' and its text if it has one.
NameOf(r) ==
    IF heap[r].text = <<>> THEN <<heap[r].type>>
    ELSE <<heap[r].type, " | ">> \o heap[r].text
\* How many Nodes made before r carry the display name of r.
EarlierSameName(r) == Cardinality({q \in 1..(r - 1) : NameOf(q) = NameOf(r)})

\* C1: after parse() every node of the walk has an id no other node of the
\* walk has, the vertex table holds exactly one entry per named syntax node
\* visited, the root's id is 'module | <file path>' and every other id is
\* the display name followed by '_' and the number of earlier nodes with
\* that display name.
C1_UniqueIds ==
    Parsing =>
      /\ Cardinality({heap[r].id : r \in Walked}) = Cardinality(Walked)
      /\ \A r \in Walked :
            heap[r].id = IF SynOf(r) = 1 THEN <<"module", " | ">> \o filepath
                         ELSE NameOf(r) \o <<"_">> \o str(EarlierSameName(r))
      /\ pc \in {"start", "walk", "resolve", "again", "done"} =>
            /\ Cardinality(DOMAIN vert_dict) = Len(visited)
            /\ num_vertices = Len(visited)
            /\ \A r \in Walked : vert_dict[heap[r].id] = r
      /\ pc \in {"resolve", "again", "done"} =>
            {SynOf(r) : r \in Walked} = NamedSyntaxNodes

\* C1 witness: a finished parse in which one display name occurred three
\* times (counter suffixes _0, _1, _2).
C1_Witness ==
    /\ Parsing /\ pc = "done"
    /\ \E r \in Walked : SynOf(r) # 1 /\ EarlierSameName(r) = 2 /\ heap[r].text # <<>>

\* C2: a node is registered only when its parent, if any, has its id in the
\* table before the call; add_vertex on a node whose parent's id is not
\* registered raises and leaves table and counter unchanged; every
\* registered node with a parent has the parent's id registered; and no
\* call of parse() raises.
C2_ParentFirst ==
    /\ [](\A id \in DOMAIN vert_dict :
            heap[vert_dict[id]].parent # None =>
               heap[heap[vert_dict[id]].parent].id \in DOMAIN vert_dict)
    /\ [](Parsing => exc = NoExc /\ pc # "raised")
    /\ [][ /\ \A r \in registered' \ registered :
                heap'[r].parent # None => heap[heap'[r].parent].id \in DOMAIN vert_dict
           /\ \A r \in DOMAIN heap :
                (AddVertex(r) /\ heap[r].parent # None
                    /\ heap[heap[r].parent].id \notin DOMAIN vert_dict)
                => /\ exc' = <<"Parent ">> \o heap[heap[r].parent].id \o <<" not in graph.">>
                   /\ vert_dict' = vert_dict
                   /\ num_vertices' = num_vertices ]_vars

\* C2 witness: add_vertex has just refused a node whose parent is not
\* registered, while another node is registered.
C2_Witness ==
    /\ client = "graph" /\ exc # NoExc /\ exc[1] = "Parent "
    /\ \E r \in DOMAIN heap : heap[r].parent # None /\ r \notin registered

\* The neighbor entry of r1 for r2: its weight, 0 when r2 is no neighbor.
Entry(h, r1, r2) == IF r2 \in DOMAIN h[r1].adjacent THEN h[r1].adjacent[r2] ELSE 0

\* C3: add_edge(from, to, weight, bi) with an unregistered endpoint raises
\* and changes no neighbor map; with both registered it sets to as a
\* neighbor of from with the weight, from as a neighbor of to only when bi,
\* and nothing else.
C3_AddEdge ==
    [][ \A f \in Ids, t \in Ids, w \in Weights, b \in BOOLEAN :
          AddEdge(f, t, w, b) =>
            IF f \notin DOMAIN vert_dict \/ t \notin DOMAIN vert_dict
            THEN /\ exc' # NoExc /\ exc'[1] = "Vertex "
                 /\ heap' = heap
            ELSE /\ exc' = NoExc
                 /\ \A r1, r2 \in DOMAIN heap :
                       Entry(heap', r1, r2) =
                         IF \/ r1 = vert_dict[f] /\ r2 = vert_dict[t]
                            \/ b /\ r1 = vert_dict[t] /\ r2 = vert_dict[f]
                         THEN w ELSE Entry(heap, r1, r2) ]_vars

\* C3 witness: add_edge has just failed on an absent endpoint, on a graph
\* in which an earlier add_edge installed an edge of weight 2.
C3_Witness ==
    /\ client = "graph" /\ exc # NoExc /\ exc[1] = "Vertex "
    /\ \E r1, r2 \in DOMAIN heap : Entry(heap, r1, r2) = 2

\* ----------------------------------------------------- calls and imports
IsCall(r) == tree[SynOf(r)].type = "call"
\* The callee of a call node: the text of its function child.
Callee(r) == tree[children(tree, SynOf(r))[1]].text
BuiltinCalls == {r \in Walked : IsCall(r) /\ Callee(r) \in BUILTINS}
TrackedCalls == {r \in Walked : IsCall(r) /\ Callee(r) \notin BUILTINS}
\* The Nodes of import bindings and of definitions.
ImportNodes ==
    {r \in Walked :
        \/ tree[SynOf(r)].type = "aliased_import"
        \/ /\ tree[SynOf(r)].type = "dotted_name"
           /\ tree[tree[SynOf(r)].parent].type
                 \in {"import_statement", "import_from_statement"}}
DefNodes == {r \in Walked : tree[SynOf(r)].type = "function_definition"}
\* The name a function_definition defines: its name field, the identifier
\* that follows 'def'.
DefinedName(r) ==
    LET ch == children(tree, SynOf(r))
        k  == CHOOSE k \in 1..Len(ch) : tree[ch[k]].type = "def"
    IN  tree[ch[k + 1]].text
\* A dotted path and what is left of it after dropping trailing segments.
Prefixes(c) == {SubSeq(c, 1, k) : k \in {k \in 1..Len(c) : k = Len(c) \/ c[k + 1] = "."}}
\* The prefixes of r's callee that imports bound when r was visited.
BoundAtVisit(r) == Prefixes(Callee(r)) \cap DOMAIN visited[r].imports
Longest(P) == CHOOSE x \in P : \A y \in P : Len(y) <= Len(x)
\* The queued call -> import edges that start at r.
QueuedFrom(r) == {k \in 1..Len(edges_to_add) : edges_to_add[k][1] = heap[r].id}

\* C4: when parse() is over, every recorded call whose name some
\* function_definition of the file defines is linked with a definition node
\* of that name by a call -> definition and a definition -> call edge.
C4_CallDefinitionEdges ==
    (Parsing /\ pc = "done") =>
      \A k \in 1..Len(function_calls) :
         LET f == function_calls[k][1]
             call == vert_dict[function_calls[k][2]]
         IN  (\E d \in DefNodes : DefinedName(d) = f)
             => \E d \in DefNodes :
                   DefinedName(d) = f /\ Edge(call, d) /\ Edge(d, call)

\* The extent of C4's failure: it holds of the definitions whose second
\* child is their name, that is, of every definition not marked async.
C4_ExceptAsync ==
    (Parsing /\ pc = "done") =>
      \A k \in 1..Len(function_calls) :
         LET f == function_calls[k][1]
             call == vert_dict[function_calls[k][2]]
             Sync == {d \in DefNodes : tree[children(tree, SynOf(d))[1]].type = "def"}
         IN  (\E d \in Sync : DefinedName(d) = f)
             => \E d \in Sync :
                   DefinedName(d) = f /\ Edge(call, d) /\ Edge(d, call)

\* C5: a call of a built-in name leaves no entry in the calls table, queues
\* no call -> import edge, is no endpoint of an edge with a definition or an
\* import, and has only its tree children as neighbors.
C5_BuiltinExcluded ==
    Parsing =>
      /\ \A b \in BUILTINS : b \notin Keys(function_calls)
      /\ \A r \in BuiltinCalls :
            /\ \A k \in 1..Len(function_calls) : function_calls[k][2] # heap[r].id
            /\ QueuedFrom(r) = {}
            /\ DOMAIN heap[r].adjacent \subseteq TreeChildren(r)
            /\ \A d \in DefNodes \cup ImportNodes : ~Edge(d, r)
            /\ pc = "done" => DOMAIN heap[r].adjacent = TreeChildren(r)

\* C5 witness: a finished parse of a file that calls print, defines print
\* and binds print by an import.
C5_Witness ==
    /\ Parsing /\ pc = "done"
    /\ BuiltinCalls # {}
    /\ <<"print">> \in DOMAIN function_definitions
    /\ <<"print">> \in DOMAIN imports

\* C6: a tracked call whose callee, or a prefix of it, was bound in imports
\* when the call was visited has exactly one queued call -> import edge, to
\* the import node then bound to the longest bound prefix; when parse() is
\* over that node is its neighbor.
C6_LongestPrefix ==
    Parsing =>
      \A r \in TrackedCalls :
         BoundAtVisit(r) # {} =>
            /\ Cardinality(QueuedFrom(r)) = 1
            /\ \A k \in QueuedFrom(r) :
                  edges_to_add[k][2] = visited[r].imports[Longest(BoundAtVisit(r))][1]
            /\ pc = "done" =>
                  \E m \in ImportNodes :
                     /\ heap[m].id = visited[r].imports[Longest(BoundAtVisit(r))][1]
                     /\ Edge(r, m)

\* C6 witness: a finished parse with a call of os.path.join visited when
\* both os and os.path were bound.
C6_Witness ==
    /\ Parsing /\ pc = "done"
    /\ \E r \in TrackedCalls :
          /\ Callee(r) = <<"os", ".", "path", ".", "join">>
          /\ Cardinality(BoundAtVisit(r)) = 2

\* C7: teardown leaves every node that was registered with no parent and no
\* neighbor, the vertex table empty and the vertex counter at zero.
C7_TeardownClears ==
    [][ (DeleteGraph \/ Teardown) =>
           /\ \A r \in registered :
                 heap'[r].parent = None /\ heap'[r].adjacent = <<>>
           /\ vert_dict' = <<>>
           /\ num_vertices' = 0 ]_vars

\* The extent of C7's failure: teardown of the graph parse() built, whose
\* ids are unique, clears every node, call <-> definition cycles included.
C7_AfterParse ==
    [][ Teardown =>
           /\ \A r \in DOMAIN heap :
                 heap'[r].parent = None /\ heap'[r].adjacent = <<>>
           /\ vert_dict' = <<>>
           /\ num_vertices' = 0 ]_vars

\* C8: no registered node is ever replaced in the table by another node of
\* the same id, and the vertex counter is the number of registered ids.
C8_NoSilentOverwrite ==
    /\ num_vertices = Cardinality(DOMAIN vert_dict)
    /\ \A r \in registered : vert_dict[heap[r].id] = r

\* Two tracked call sites of one name, r1 visited before r2.
SameNameCalls ==
    {p \in TrackedCalls \X TrackedCalls : p[1] < p[2] /\ Callee(p[1]) = Callee(p[2])}

\* C9 as stated: when parse() is over, the earlier of two call sites of one
\* name has no edge besides its tree edges: no neighbor that is not a tree
\* child, and no definition that has it as a neighbor.
C9_OnlyLaterCallLinked ==
    (Parsing /\ pc = "done") =>
      \A p \in SameNameCalls :
         /\ DOMAIN heap[p[1]].adjacent \subseteq TreeChildren(p[1])
         /\ \A d \in DefNodes : ~Edge(d, p[1])

\* C9 amended: the calls table records the later of two call sites of one
\* name, so when parse() is over the earlier one has no edge to or from a
\* definition; its neighbors are its tree children and, when its callee or
\* a prefix was bound in imports at its own visit, that import node.
C9_OnlyLaterCallDefined ==
    Parsing =>
      \A p \in SameNameCalls :
         /\ \A k \in 1..Len(function_calls) : function_calls[k][2] # heap[p[1]].id
         /\ \A d \in DefNodes : ~Edge(p[1], d) /\ ~Edge(d, p[1])
         /\ \A x \in DOMAIN heap[p[1]].adjacent \ TreeChildren(p[1]) :
               /\ BoundAtVisit(p[1]) # {}
               /\ heap[x].id = visited[p[1]].imports[Longest(BoundAtVisit(p[1]))][1]

\* C9 witness: a finished parse with two call sites of one name, the
\* earlier one linked to an import node.
C9_Witness ==
    /\ Parsing /\ pc = "done"
    /\ \E p \in SameNameCalls : \E m \in ImportNodes : Edge(p[1], m)

\* C10: a tracked call visited when imports bound neither its callee nor a
\* prefix of it has no queued call -> import edge and never an import node
\* as a neighbor, whatever is imported later; and parse() raises nothing.
C10_ImportAfterUse ==
    Parsing =>
      /\ exc = NoExc /\ pc # "raised"
      /\ \A r \in TrackedCalls :
            BoundAtVisit(r) = {} =>
               /\ QueuedFrom(r) = {}
               /\ \A m \in ImportNodes : ~Edge(r, m)

\* C10 witness: a finished parse in which a call was visited unbound and an
\* import visited later binds its callee or a prefix of it.
C10_Witness ==
    /\ Parsing /\ pc = "done"
    /\ \E r \in TrackedCalls :
          /\ BoundAtVisit(r) = {}
          /\ Prefixes(Callee(r)) \cap DOMAIN imports # {}

\* ------------------------------------------------------------- exports
\* C11: an export or query operation called on a parser that has not run
\* parse() raises the usage error and produces nothing; called after
\* parse() it raises nothing and produces its output.
C11_ExportNeedsParse ==
    [][ \A op \in ExportOps :
          Export(op) =>
            /\ pc = "start" => exc' # NoExc /\ out' = NoOut
            /\ pc = "done" => exc' = NoExc /\ out'.made ]_vars

\* The extent of C11's failure: no export ever raises; after parse() it
\* produces every vertex and every edge of the graph, and before parse()
\* it produces the output of an empty graph.
C11_ExportNeverRefused ==
    [][ \A op \in ExportOps :
          Export(op) =>
            /\ exc' = NoExc
            /\ out'.made
            /\ out'.nodes = {heap[r].id : r \in registered}
            /\ out'.edges = UNION {{<<heap[r1].id, heap[r2].id>> :
                                       r2 \in DOMAIN heap[r1].adjacent} :
                                     r1 \in registered}
            /\ pc = "start" => out'.nodes = {} /\ out'.edges = {} ]_vars

\* ------------------------------------------------- the staging of edges
\* All edges of the graph, as pairs of Nodes.
Edges == UNION {{<<r1, r2>> : r2 \in DOMAIN heap[r1].adjacent} : r1 \in DOMAIN heap}
\* The parent -> child pairs of the Nodes in S.
TreeEdgesOf(S) == {<<heap[r].parent, r>> : r \in {x \in S : heap[x].parent # None}}
\* The Nodes whose visit is over: made by the walk and no longer on the stack.
Returned == {r \in Walked : \A k \in DOMAIN stack : stack[k].ref # r}
\* The call <-> definition pairs of the first n entries of the calls table.
DefEdges(n) ==
    UNION {LET f == function_calls[k][1]
               c == vert_dict[function_calls[k][2]]
           IN  IF f \in DOMAIN function_definitions
               THEN {<<c, vert_dict[function_definitions[f]]>>,
                     <<vert_dict[function_definitions[f]], c>>}
               ELSE {} : k \in 1..n}
\* The call -> import pairs of the first n entries of the queue.
QueueEdges(n) ==
    {<<vert_dict[edges_to_add[k][1]], vert_dict[edges_to_add[k][2]]>> : k \in 1..n}
IsPrefix(s1, s2) == Len(s1) <= Len(s2) /\ SubSeq(s2, 1, Len(s1)) = s1

\* The stages of parse(), with S the Nodes whose tree edge the walk owes.
StagedState(S) ==
    Parsing =>
      /\ pc = "walk" => Edges = TreeEdgesOf(S) /\ ri = 1 /\ di = 1
      /\ pc \in {"resolve", "done"} =>
            /\ Edges = TreeEdgesOf(Walked) \cup DefEdges(ri - 1) \cup QueueEdges(di - 1)
            /\ di > 1 => ri > Len(function_calls)
      /\ pc = "done" => ri > Len(function_calls) /\ di = Len(edges_to_add) + 1
\* The queue only grows, and only during the walk; a round of the drain
\* installs the next queued edge and nothing else.
StagedStep ==
    /\ IsPrefix(edges_to_add, edges_to_add')
    /\ pc \notin {"start", "walk"} => edges_to_add' = edges_to_add
    /\ DrainEdge =>
          /\ di' = di + 1
          /\ Edges' = Edges \cup (QueueEdges(di) \ QueueEdges(di - 1))

\* C12 as stated: while the walk runs the edges are exactly the tree edges
\* of the nodes visited so far; call -> import edges are only queued during
\* the walk; after it the call <-> definition edges are installed first and
\* the queue is then drained, each queued edge once, in queue order.
C12_EdgesOfVisited ==
    /\ []StagedState(Walked)
    /\ [][StagedStep]_vars

\* C12 amended: as stated, but the walk adds the tree edge to a node when
\* the visit of that node returns, so while the walk runs the edges are the
\* tree edges of the nodes whose visit is over; a node still on the
\* recursion stack is in the table with no edge from its parent yet.
C12_EdgesOfReturned ==
    /\ []StagedState(Returned)
    /\ [][StagedStep]_vars

\* C12 witness: the drain is under way after a call <-> definition edge
\* was installed, one queued edge drained.
C12_Witness ==
    /\ Parsing /\ pc = "resolve"
    /\ di = 2 /\ DefEdges(ri - 1) # {}
    /\ QueueEdges(1) \subseteq Edges

\* ------------------------------------------- resolution, run and re-run
\* parse() has just returned.
Parsed == Parsing /\ pc = "done" /\ out = NoOut
\* The files that hold the statements of s in some order.
Orders(s) ==
    LET n == Len(s)
        P == {g \in [1..n -> 1..n] : \A a, b \in 1..n : g[a] = g[b] => a = b}
    IN  {[i \in 1..n |-> s[g[i]]] : g \in P}
\* A dict kept as a sequence of entries, as the dict it is.
AsDict(d) == {d[k] : k \in 1..Len(d)}
\* The final calls, definitions and imports tables of st are those of the state.
SameTables(st) ==
    /\ AsDict(st.function_calls) = AsDict(function_calls)
    /\ st.function_definitions = function_definitions
    /\ st.imports = imports
\* The edges of the graph that are no tree edges, as pairs of ids.
SemanticEdges ==
    {<<heap[e[1]].id, heap[e[2]].id>> : e \in Edges \ TreeEdgesOf(Walked)}
\* Those of a set of id pairs that start or end at a definition node.
DefIds == {heap[d].id : d \in {r \in Walked : is_definition(tree, SynOf(r))}}
WithDefinition(E) == {e \in E : e[1] \in DefIds \/ e[2] \in DefIds}
\* A re-run of the resolution step changes no neighbor map.
RerunChangesNothing == pc = "again" => heap' = heap

\* C13 as stated: a second run of the resolution step leaves every
\* neighbor map unchanged, and the semantic edges of a file are those of
\* every file that holds the same statements in another order and ends with
\* the same calls, definitions and imports tables.
C13_OrderIndependent ==
    /\ [][RerunChangesNothing]_vars
    /\ [](Parsed =>
            LET sem == SemanticEdges
            IN  \A q \in Orders(source) :
                   LET st == parse_tables(q, _init_tracking)
                   IN  SameTables(st) => _resolve_imports(st) = sem)

\* C13 amended: a second run of the resolution step leaves every neighbor
\* map unchanged; the call <-> definition edges of a file are those of every
\* file that holds the same statements in another order and ends with the
\* same tables; the semantic edges are these and the queued call -> import
\* edges, and the queue is filled at the visit of each call, so it does
\* depend on the order of the visits.
C13_IdempotentDefinitionEdges ==
    /\ [][RerunChangesNothing]_vars
    /\ [](Parsed =>
            LET st0 == parse_tables(source, _init_tracking)
                sem == SemanticEdges
                def == WithDefinition(sem)
            IN  /\ SameTables(st0)
                /\ st0.edges_to_add = edges_to_add
                /\ sem = _resolve_imports([function_calls |-> function_calls,
                                           function_definitions |-> function_definitions,
                                           edges_to_add |-> edges_to_add])
                /\ \A q \in Orders(source) \ {source} :
                      LET st == parse_tables(q, _init_tracking)
                      IN  SameTables(st) => WithDefinition(_resolve_imports(st)) = def)

\* C13 witness: a second run of the resolution step has been through both
\* of its loops on a file with a call <-> definition edge and a drained
\* call -> import edge, and the statements in another order end with the
\* same tables.
C13_Witness ==
    /\ Parsing /\ pc = "again"
    /\ ri > Len(function_calls) /\ di > Len(edges_to_add)
    /\ edges_to_add # <<>>
    /\ WithDefinition(SemanticEdges) # {}
    /\ \E q \in Orders(source) \ {source} :
          SameTables(parse_tables(q, _init_tracking))

====
